---- MODULE Spec2Model ----
(***************************************************************************)
(* Model of request_logging/middleware.py: the Logger that forwards a      *)
(* message line by line to the 'django.request' logger, and the            *)
(* LoggingMiddleware that wraps get_response and logs one JSON record per  *)
(* request unless the resolved view carries the no_logging attribute.      *)
(*                                                                         *)
(* Python strings are sequences of one-character strings, so that          *)
(* startswith, split, format and json.dumps are computed and not assumed.  *)
(* Python dicts are sequences of entries [k, v] in insertion order.        *)
(***************************************************************************)
EXTENDS Integers, Sequences, FiniteSets, TLC

VARIABLES
    settings,   \* django.conf.settings: REQUEST_LOGGING_DATA_LOG_LEVEL, if set
    urlconf,    \* the host's URL configuration read by resolve()
    now,        \* the reading datetime.utcnow() returns at this moment
    inst,       \* the LoggingMiddleware instance: its fields once constructed
    calls,      \* per invocation of __call__: its position and its locals
    sink,       \* the calls request_logger.log has received, in order
    probe       \* a direct call of Logger.log or _should_log_route: its arguments and result

vars == <<settings, urlconf, now, inst, calls, sink, probe>>

-----------------------------------------------------------------------------
(* Bounds of the model *)

MaxCalls == 2
MaxClock == 2
MaxPathLen == 3
MaxMsgLen == 5

-----------------------------------------------------------------------------
(* Characters and string literals of the source *)

LF == "\n"
CR == "\r"
SLASH == "/"
QUOTE == "\""
BACKSLASH == "\\"

S_GET == <<"G", "E", "T">>
S_POST == <<"P", "O", "S", "T">>
S_get == <<"g", "e", "t">>
S_post == <<"p", "o", "s", "t">>
S_list == <<"l", "i", "s", "t">>
S_HTTP_ == <<"H", "T", "T", "P", "_">>
S_path_ == <<"p", "a", "t", "h", "_">>
K_status_code == <<"s", "t", "a", "t", "u", "s", "_", "c", "o", "d", "e">>
K_time == <<"t", "i", "m", "e">>
K_method == <<"m", "e", "t", "h", "o", "d">>
K_path == <<"p", "a", "t", "h">>
K_user == <<"u", "s", "e", "r">>

NOTSET == 0
DEBUG == 10
INFO == 20
WARNING == 30
ERROR == 40
CRITICAL == 50
DEFAULT_LOG_LEVEL == DEBUG
NO_LOGGING_ATTR == "no_logging"
NO_LOGGING_MSG ==
    <<"N", "o", " ", "l", "o", "g", "g", "i", "n", "g", " ", "f", "o", "r",
      " ", "t", "h", "i", "s", " ", "e", "n", "d", "p", "o", "i", "n", "t">>

\* None, and the value the no_logging decorator sets.
None == "None"
True == "True"

-----------------------------------------------------------------------------
(* Python values and dicts *)

PyStr(s) == [t |-> "str", n |-> 0, s |-> s]
PyInt(n) == [t |-> "int", n |-> n, s |-> <<>>]
PyFloat(n) == [t |-> "float", n |-> n, s |-> <<>>]

DictKeys(d) == {d[j].k : j \in 1..Len(d)}
DictGet(d, key) == (d[CHOOSE j \in 1..Len(d) : d[j].k = key]).v

\* d[key] = val: an existing key keeps its position, a new key is appended.
DictSet(d, key, val) ==
    IF key \in DictKeys(d)
    THEN LET at == CHOOSE j \in 1..Len(d) : d[j].k = key
         IN SubSeq(d, 1, at - 1) \o <<[k |-> key, v |-> val]>> \o SubSeq(d, at + 1, Len(d))
    ELSE Append(d, [k |-> key, v |-> val])

\* d.update(e)
RECURSIVE DictUpdate(_, _)
DictUpdate(d, e) ==
    IF e = <<>> THEN d
    ELSE DictUpdate(DictSet(d, Head(e).k, Head(e).v), Tail(e))

StartsWith(s, prefix) ==
    /\ Len(s) >= Len(prefix)
    /\ SubSeq(s, 1, Len(prefix)) = prefix

\* str.lower() on the method names the model uses.
Lower(s) ==
    [i \in 1..Len(s) |->
        CASE s[i] = "G" -> "g" [] s[i] = "E" -> "e" [] s[i] = "T" -> "t"
          [] s[i] = "P" -> "p" [] s[i] = "O" -> "o" [] s[i] = "S" -> "s"
          [] OTHER -> s[i]]

Digit(n) == <<"0", "1", "2", "3", "4", "5", "6", "7", "8", "9">>[n + 1]

\* '{}'.format(i) and json's text of an int.
RECURSIVE IntText(_)
IntText(n) ==
    IF n < 0 THEN <<"-">> \o IntText(0 - n)
    ELSE IF n < 10 THEN <<Digit(n)>>
    ELSE IntText(n \div 10) \o <<Digit(n % 10)>>

\* json's text of a float holding a whole number of seconds: repr(2.0) = '2.0'.
FloatText(n) == IntText(n) \o <<".", "0">>

\* str.split(sep) for a one-character separator.
RECURSIVE SplitFrom(_, _, _, _)
SplitFrom(s, sep, i, cur) ==
    IF i > Len(s) THEN <<cur>>
    ELSE IF s[i] = sep THEN <<cur>> \o SplitFrom(s, sep, i + 1, <<>>)
    ELSE SplitFrom(s, sep, i + 1, Append(cur, s[i]))

\* A faulty variant: str.split() without its argument drops the empty pieces.
Split_drop_empty(s, sep) == SelectSeq(SplitFrom(s, sep, 1, <<>>), LAMBDA piece : piece # <<>>)

Split(s, sep) == SplitFrom(s, sep, 1, <<>>)

\* re.split(r'\r?\n', s): the pieces of s between the matches of the
\* pattern. A match ends at a "\n" and starts at the "\r" before it, if any.
MatchEnds(s) == {p \in 1..Len(s) : s[p] = LF}
NthMatchEnd(s, nth) ==
    CHOOSE p \in MatchEnds(s) : Cardinality({q \in MatchEnds(s) : q <= p}) = nth
\* A faulty variant: the pattern is '\n' alone.
MatchStart_newline_only(s, p) == p

MatchStart(s, p) == IF p > 1 /\ s[p - 1] = CR THEN p - 1 ELSE p

ReSplit(s) ==
    LET count == Cardinality(MatchEnds(s))
    IN [piece \in 1..(count + 1) |->
           SubSeq(s,
                  IF piece = 1 THEN 1 ELSE NthMatchEnd(s, piece - 1) + 1,
                  IF piece = count + 1 THEN Len(s)
                  ELSE MatchStart(s, NthMatchEnd(s, piece)) - 1)]

\* json.dumps of a str: quoted, with the quote, the backslash and the
\* control characters escaped.
JsonEscapeChar(c) ==
    CASE c = LF -> <<BACKSLASH, "n">>
      [] c = CR -> <<BACKSLASH, "r">>
      [] c = QUOTE -> <<BACKSLASH, QUOTE>>
      [] c = BACKSLASH -> <<BACKSLASH, BACKSLASH>>
      [] OTHER -> <<c>>

RECURSIVE JsonEscape(_)
JsonEscape(s) ==
    IF s = <<>> THEN <<>> ELSE JsonEscapeChar(Head(s)) \o JsonEscape(Tail(s))

JsonString(s) == <<QUOTE>> \o JsonEscape(s) \o <<QUOTE>>

JsonValue(v) ==
    CASE v.t = "str" -> JsonString(v.s)
      [] v.t = "int" -> IntText(v.n)
      [] v.t = "float" -> FloatText(v.n)

RECURSIVE JsonItems(_)
JsonItems(d) ==
    IF d = <<>> THEN <<>>
    ELSE JsonString(Head(d).k) \o <<":", " ">> \o JsonValue(Head(d).v)
         \o (IF Len(d) > 1 THEN <<",", " ">> ELSE <<>>) \o JsonItems(Tail(d))

\* json.dumps(message) with the default separators.
json_dumps(d) == <<"{">> \o JsonItems(d) \o <<"}">>

-----------------------------------------------------------------------------
(* The host: views, URL configuration, requests and responses *)

Markers == {None, True}

\* A class is its attributes; an attribute is a function object, given here
\* by the value of its no_logging attribute (None when it has none).
ClassesOver(names) == UNION {[D -> Markers] : D \in SUBSET names}
Classes == ClassesOver({S_get, S_list})
ActionMaps == UNION {[D -> {S_get, S_list}] : D \in SUBSET {S_get, S_post}}
NoClass == [x \in {} |-> None]

\* route_match.func: a callable that may carry no_logging, cls, actions and
\* view_class attributes.
Views ==
    [no_logging : Markers,
     has_cls : BOOLEAN, cls : Classes,
     has_actions : BOOLEAN, actions : ActionMaps,
     has_view_class : BOOLEAN, view_class : Classes]

PlainView(marker) ==
    [no_logging |-> marker, has_cls |-> FALSE, cls |-> NoClass,
     has_actions |-> FALSE, actions |-> NoClass,
     has_view_class |-> FALSE, view_class |-> NoClass]

ViewSetView(marker, cls, actions) ==
    [PlainView(marker) EXCEPT !.has_cls = TRUE, !.cls = cls,
                              !.has_actions = TRUE, !.actions = actions]

ApiView(marker, cls) == [PlainView(marker) EXCEPT !.has_cls = TRUE, !.cls = cls]

ClassBasedView(marker, cls) ==
    [PlainView(marker) EXCEPT !.has_view_class = TRUE, !.view_class = cls]

\* The URL configuration of the interceptor runs: one route per handler shape.
DefaultUrlconf ==
    (<<SLASH>> :> PlainView(None))
    @@ (<<SLASH, "a">> :> PlainView(True))
    @@ (<<SLASH, "a", SLASH>> :>
            ViewSetView(None, (S_list :> True), (S_get :> S_list)))
    @@ (<<SLASH, SLASH>> :> ClassBasedView(None, (S_get :> True)))
    @@ (<<SLASH, "a", "a">> :> ApiView(None, (S_get :> None)))
    @@ (<<SLASH, SLASH, "a">> :>
            ViewSetView(True, (S_list :> None), (S_get :> S_list)))

SeqsUpTo(alphabet, n) == UNION {[1..k -> alphabet] : k \in 0..n}

\* request.path: it starts with the slash.
ExamplePath == <<SLASH, "a", SLASH, "b", SLASH, "c">>
Paths == {<<SLASH>> \o p : p \in SeqsUpTo({SLASH, "a"}, MaxPathLen - 1)} \cup {ExamplePath}

\* request.META, in insertion order.
Meta0 == <<>>
Meta1 ==
    << [k |-> S_HTTP_ \o <<"X", "_", "F", "O", "O">>, v |-> PyStr(<<"b", "a", "r">>)],
       [k |-> <<"C", "O", "N", "T", "E", "N", "T", "_", "L", "E", "N", "G", "T", "H">>,
        v |-> PyStr(<<"1", "0">>)] >>
Meta2 ==
    << [k |-> <<"H", "T", "T", "P">>, v |-> PyStr(<<"1">>)],
       [k |-> S_HTTP_, v |-> PyStr(<<"a", LF, "b", CR, LF, QUOTE>>)],
       [k |-> <<"h", "t", "t", "p", "_", "x">>, v |-> PyStr(<<"l">>)] >>
Metas == {Meta0, Meta1, Meta2}

Users == {<<"u">>}
Methods == {S_GET, S_POST}

MkRequest(method, path, user, meta) ==
    [id |-> 0, method |-> method, path |-> path, full_path |-> path,
     user |-> user, META |-> meta]

Requests == {MkRequest(m, p, u, h) : m \in Methods, p \in Paths, u \in Users, h \in Metas}

\* Two requests that differ in every logged field, and a suppressed one.
ConcRequests ==
    { MkRequest(S_GET, <<SLASH>>, <<"u">>, Meta0),
      MkRequest(S_POST, <<SLASH, "a", "a">>, <<"w">>, Meta1),
      MkRequest(S_GET, <<SLASH, "a">>, <<"u">>, Meta1) }

StatusCodes == {200, 404}
NoResponse == [status_code |-> 0]

\* django.urls.resolve(path): a ResolverMatch, or Resolver404 raised.
Resolve(path) ==
    IF path \in DOMAIN urlconf
    THEN [ok |-> TRUE, func |-> urlconf[path]]
    ELSE [ok |-> FALSE, func |-> PlainView(None)]

-----------------------------------------------------------------------------
(* class Logger *)

\* Logger.log: the calls of request_logger.log it makes, in order.
LoggerLog(level, msg, logging_context) ==
    LET lines == ReSplit(msg)
    IN [i \in 1..Len(lines) |->
           [level |-> level, msg |-> lines[i],
            args |-> logging_context.args, kwargs |-> logging_context.kwargs]]

\* Logger.log_error
LoggerLogError(level, msg, logging_context) == LoggerLog(level, msg, logging_context)

-----------------------------------------------------------------------------
(* class LoggingMiddleware *)

KnownLevels == {NOTSET, DEBUG, INFO, WARNING, ERROR, CRITICAL}

\* A faulty variant: a range test in place of the membership test.
LevelIsKnown_range(level) == level \in NOTSET..CRITICAL

\* The test of __init__ that lets construction go on.
LevelIsKnown(level) == level \in KnownLevels

\* getattr(settings, SETTING_NAMES['log_level'], DEFAULT_LOG_LEVEL)
ConfiguredLevel == IF settings.set THEN settings.value ELSE DEFAULT_LOG_LEVEL

\* getattr(obj, name, None) on a class, then the function object it yields.
NoneObj == [is_none |-> TRUE, no_logging |-> None]
GetAttr(cls, name) ==
    IF name \in DOMAIN cls THEN [is_none |-> FALSE, no_logging |-> cls[name]]
    ELSE NoneObj

\* getattr(func, NO_LOGGING_ATTR, None)
NoLoggingOf(func) == IF func.is_none THEN None ELSE func.no_logging

\* The handler _should_log_route reads the marker from, for a resolved view.
EffectiveFunc(view, method) ==
    LET self == [is_none |-> FALSE, no_logging |-> view.no_logging]
    IN IF view.has_cls
       THEN IF view.has_actions
            THEN IF method \in DOMAIN view.actions
                 THEN GetAttr(view.cls, view.actions[method])
                 ELSE self
            ELSE GetAttr(view.cls, method)
       ELSE IF view.has_view_class
            THEN GetAttr(view.view_class, method)
            ELSE self

\* A faulty variant: a failed resolution skips logging.
_should_log_route_fail_skips(request) ==
    LET route_match == Resolve(request.path)
    IN IF ~route_match.ok THEN True
       ELSE NoLoggingOf(EffectiveFunc(route_match.func, Lower(request.method)))

_should_log_route(request) ==
    LET route_match == Resolve(request.path)
    IN IF ~route_match.ok THEN None
       ELSE NoLoggingOf(EffectiveFunc(route_match.func, Lower(request.method)))

\* The sink calls _skip_logging_request makes.
_skip_logging_request(request, reason) ==
    LET method_path == request.method \o <<" ">> \o request.full_path
        no_log_context ==
            [args |-> <<>>, kwargs |-> [extra |-> [no_logging |-> reason]]]
    IN LoggerLog(INFO,
                 method_path \o <<" ", "(", "n", "o", "t", " ", "l", "o", "g", "g", "e", "d",
                                  " ", "b", "e", "c", "a", "u", "s", "e", " ", "'">>
                     \o reason \o <<"'", ")">>,
                 no_log_context)

\* A faulty variant: the prefix tested lacks its underscore.
get_request_headers_short_prefix(request) ==
    SelectSeq(request.META, LAMBDA e : StartsWith(e.k, <<"H", "T", "T", "P">>))

\* The dict comprehension keeps the META items whose key starts with HTTP_.
get_request_headers(request) ==
    SelectSeq(request.META, LAMBDA e : StartsWith(e.k, S_HTTP_))

_get_logging_context(request, response) ==
    [args |-> <<>>, kwargs |-> [extra |-> [request |-> request, response |-> response]]]

\* message[pk] = p for i, p in enumerate(path.split('/'))
RECURSIVE SetPathFields(_, _, _)
SetPathFields(message, segments, i) ==
    IF i > Len(segments) THEN message
    ELSE SetPathFields(DictSet(message, S_path_ \o IntText(i - 1), PyStr(segments[i])),
                       segments, i + 1)

\* The message dict process_response builds.
BuildMessage(response, delta, req_info, headers) ==
    LET message0 == << [k |-> K_status_code, v |-> PyInt(response.status_code)],
                       [k |-> K_time, v |-> PyFloat(delta)] >>
        message1 == DictUpdate(message0, req_info)
        message2 == DictUpdate(message1, headers)
        path == DictGet(req_info, K_path).s
    IN SetPathFields(message2, Split(path, SLASH), 1)

\* process_response: what it leaves in the invocation's frame and the sink.
process_response(c, request, response, start_time, req_info, headers) ==
    LET skip_logging_because == _should_log_route(request)
    IN IF skip_logging_because = True
       THEN /\ calls' = [calls EXCEPT ![c].pc = "done",
                                      ![c].skip_logging_because = skip_logging_because]
            /\ sink' = sink
       ELSE LET logging_context == _get_logging_context(request, response)
                delta == now - start_time
                message == BuildMessage(response, delta, req_info, headers)
            IN /\ calls' = [calls EXCEPT ![c].pc = "done",
                                         ![c].skip_logging_because = skip_logging_because,
                                         ![c].message = message]
               /\ sink' = sink \o LoggerLog(INFO, json_dumps(message), logging_context)

IdleFrame ==
    [pc |-> "idle", request |-> MkRequest(<<>>, <<>>, <<>>, <<>>), start_time |-> 0,
     headers |-> <<>>, req_info |-> <<>>, response |-> NoResponse,
     skip_logging_because |-> None, message |-> <<>>]

\* LoggingMiddleware(get_response): __init__ returns, or raises ValueError.
Construct ==
    /\ inst.state = "new"
    /\ inst' = IF LevelIsKnown(ConfiguredLevel)
               THEN [state |-> "ok", get_response |-> "get_response",
                     log_level |-> ConfiguredLevel, logger |-> "Logger"]
               ELSE [state |-> "ValueError", get_response |-> "get_response",
                     log_level |-> ConfiguredLevel, logger |-> "unset"]
    /\ UNCHANGED <<settings, urlconf, now, calls, sink, probe>>

\* __call__ up to the call of get_response.
Call(c, r) ==
    /\ inst.state = "ok"
    /\ calls[c].pc = "idle"
    /\ LET request == [r EXCEPT !.id = c]
       IN calls' = [calls EXCEPT ![c] =
               [IdleFrame EXCEPT
                   !.pc = "get_response",
                   !.request = request,
                   !.start_time = now,
                   !.headers = get_request_headers(request),
                   !.req_info = << [k |-> K_method, v |-> PyStr(request.method)],
                                   [k |-> K_path, v |-> PyStr(request.path)],
                                   [k |-> K_user, v |-> PyStr(request.user)] >>]]
    /\ UNCHANGED <<settings, urlconf, now, inst, sink, probe>>

\* The wrapped handler returns a response.
GetResponseReturns(c, status) ==
    /\ calls[c].pc = "get_response"
    /\ calls' = [calls EXCEPT ![c].pc = "process_response",
                              ![c].response = [status_code |-> status]]
    /\ UNCHANGED <<settings, urlconf, now, inst, sink, probe>>

\* The wrapped handler raises: __call__ is left without process_response.
GetResponseRaises(c) ==
    /\ calls[c].pc = "get_response"
    /\ calls' = [calls EXCEPT ![c].pc = "raised"]
    /\ UNCHANGED <<settings, urlconf, now, inst, sink, probe>>

\* A faulty variant: __call__ keeps start_time, req_info and headers on the instance,
\* where the latest invocation has overwritten them.
CallResume_shared(c) ==
    LET latest == CHOOSE d \in DOMAIN calls :
                      /\ calls[d].pc # "idle"
                      /\ \A e \in DOMAIN calls : calls[e].pc # "idle" => e <= d
    IN /\ calls[c].pc = "process_response"
       /\ process_response(c, calls[c].request, calls[c].response, calls[latest].start_time,
                           calls[latest].req_info, calls[latest].headers)
       /\ UNCHANGED <<settings, urlconf, now, inst, probe>>

\* __call__ from the return of get_response: process_response on its locals.
CallResume(c) ==
    /\ calls[c].pc = "process_response"
    /\ process_response(c, calls[c].request, calls[c].response, calls[c].start_time,
                        calls[c].req_info, calls[c].headers)
    /\ UNCHANGED <<settings, urlconf, now, inst, probe>>

\* datetime.utcnow() reads the system's wall clock, which may be set to any
\* time between two readings.
ClockStep ==
    /\ \E t \in 0..MaxClock : t # now /\ now' = t
    /\ UNCHANGED <<settings, urlconf, inst, calls, sink, probe>>

-----------------------------------------------------------------------------
(* Direct calls of Logger.log and of _should_log_route *)

LogCall ==
    /\ probe.kind = "log" /\ ~probe.done
    /\ sink' = sink \o LoggerLog(probe.level, probe.msg, probe.context)
    /\ probe' = [probe EXCEPT !.done = TRUE]
    /\ UNCHANGED <<settings, urlconf, now, inst, calls>>

ShouldLogRouteCall ==
    /\ probe.kind = "route" /\ ~probe.done
    /\ probe' = [probe EXCEPT !.done = TRUE, !.result = _should_log_route(probe.request)]
    /\ UNCHANGED <<settings, urlconf, now, inst, calls, sink>>

-----------------------------------------------------------------------------
(* Specifications *)

NoProbe == [kind |-> "none"]
NewInstance == [state |-> "new", get_response |-> "unset", log_level |-> 0, logger |-> "unset"]

SettingValues == KnownLevels \cup {5, 60}
SettingsChoices == {[set |-> FALSE, value |-> 0]} \cup [set : {TRUE}, value : SettingValues]

\* One interceptor serving one request, over every setting, request and clock.
Init ==
    /\ settings \in SettingsChoices
    /\ urlconf = DefaultUrlconf
    /\ now \in 0..MaxClock
    /\ inst = NewInstance
    /\ calls = [c \in {1} |-> IdleFrame]
    /\ sink = <<>>
    /\ probe = NoProbe

Next ==
    \/ Construct
    \/ ClockStep
    \/ \E c \in DOMAIN calls, r \in Requests : Call(c, r)
    \/ \E c \in DOMAIN calls, status \in StatusCodes : GetResponseReturns(c, status)
    \/ \E c \in DOMAIN calls : GetResponseRaises(c)
    \/ \E c \in DOMAIN calls : CallResume(c)

Spec == Init /\ [][Next]_vars

\* One interceptor with the default settings, invoked concurrently on up to
\* MaxCalls requests, each suspended at get_response; the clock holds still.
InitConc ==
    /\ settings = [set |-> FALSE, value |-> 0]
    /\ urlconf = DefaultUrlconf
    /\ now = 0
    /\ inst = NewInstance
    /\ calls = [c \in 1..MaxCalls |-> IdleFrame]
    /\ sink = <<>>
    /\ probe = NoProbe

NextConc ==
    \/ Construct
    \/ \E c \in DOMAIN calls, r \in ConcRequests : Call(c, r)
    \/ \E c \in DOMAIN calls, status \in StatusCodes : GetResponseReturns(c, status)
    \/ \E c \in DOMAIN calls : GetResponseRaises(c)
    \/ \E c \in DOMAIN calls : CallResume(c)

SpecConc == InitConc /\ [][NextConc]_vars

\* Logger.log called directly on every short message.
LogAlphabet == {"X", "Y", "Z", CR, LF}
LogContexts ==
    { [args |-> <<>>, kwargs |-> [extra |-> [no_logging |-> NO_LOGGING_MSG]]],
      [args |-> <<"arg">>, kwargs |-> [extra |-> [no_logging |-> <<>>]]] }

InitLog ==
    /\ settings = [set |-> FALSE, value |-> 0]
    /\ urlconf = DefaultUrlconf
    /\ now = 0
    /\ inst = NewInstance
    /\ calls = [c \in {1} |-> IdleFrame]
    /\ sink = <<>>
    /\ probe \in [kind : {"log"}, done : {FALSE}, level : {DEBUG, INFO},
                  msg : SeqsUpTo(LogAlphabet, MaxMsgLen), context : LogContexts]

NextLog == LogCall

SpecLog == InitLog /\ [][NextLog]_vars

\* _should_log_route called directly on every shape of resolved view.
RoutePath == <<SLASH, "a">>

InitRoute ==
    /\ settings = [set |-> FALSE, value |-> 0]
    /\ urlconf \in [{RoutePath} -> Views]
    /\ now = 0
    /\ inst = NewInstance
    /\ calls = [c \in {1} |-> IdleFrame]
    /\ sink = <<>>
    /\ probe \in [kind : {"route"}, done : {FALSE}, result : {None},
                  request : {MkRequest(m, p, <<"u">>, Meta0) :
                                m \in Methods, p \in {RoutePath, <<SLASH>>}}]

NextRoute == ShouldLogRouteCall

SpecRoute == InitRoute /\ [][NextRoute]_vars

-----------------------------------------------------------------------------
(* What the claims speak of, stated without the operators of the model *)

Done(c) == calls[c].pc = "done"
Logged(c) == Done(c) /\ calls[c].skip_logging_because # True

IsRecordCall(e) == "request" \in DOMAIN e.kwargs.extra
IsNoticeCall(e) == "no_logging" \in DOMAIN e.kwargs.extra

\* The sink calls that carry the record of invocation c.
RecordCalls(c) ==
    {i \in 1..Len(sink) : IsRecordCall(sink[i]) /\ sink[i].kwargs.extra.request.id = c}

\* The sink calls that are the suppressed-request notice of invocation c.
NoticeCalls(c) ==
    {i \in 1..Len(sink) :
        /\ IsNoticeCall(sink[i])
        /\ LET head == calls[c].request.method \o <<" ">> \o calls[c].request.full_path
           IN Len(sink[i].msg) >= Len(head) /\ SubSeq(sink[i].msg, 1, Len(head)) = head}

LowerMethod(method) == IF method = S_GET THEN S_get ELSE S_post

AttrMarker(cls, name) == IF name \in DOMAIN cls THEN cls[name] ELSE None

\* Whether the rule of the specification finds a handler for (view, method).
HandlerResolved(view, lmethod) ==
    IF view.has_cls /\ view.has_actions
    THEN lmethod \in DOMAIN view.actions /\ view.actions[lmethod] \in DOMAIN view.cls
    ELSE IF view.has_cls THEN lmethod \in DOMAIN view.cls
    ELSE IF view.has_view_class THEN lmethod \in DOMAIN view.view_class
    ELSE TRUE

\* The marker the specification's rule yields: none when the method is absent
\* from the action map, whatever the view itself carries.
ClaimedMarker(view, lmethod) ==
    IF view.has_cls /\ view.has_actions
    THEN IF lmethod \in DOMAIN view.actions
         THEN AttrMarker(view.cls, view.actions[lmethod])
         ELSE None
    ELSE IF view.has_cls THEN AttrMarker(view.cls, lmethod)
    ELSE IF view.has_view_class THEN AttrMarker(view.view_class, lmethod)
    ELSE view.no_logging

RouteResolves(request) == request.path \in DOMAIN urlconf
RequestMarker(request) == ClaimedMarker(urlconf[request.path], LowerMethod(request.method))

HasHttpPrefix(key) ==
    /\ Len(key) >= 5
    /\ key[1] = "H" /\ key[2] = "T" /\ key[3] = "T" /\ key[4] = "P" /\ key[5] = "_"

HasPathPrefix(key) ==
    /\ Len(key) >= 5
    /\ key[1] = "p" /\ key[2] = "a" /\ key[3] = "t" /\ key[4] = "h" /\ key[5] = "_"

EntriesWithKey(d, key) == {j \in 1..Len(d) : d[j].k = key}
HasField(d, key) == EntriesWithKey(d, key) # {}
Field(d, key) == d[CHOOSE j \in EntriesWithKey(d, key) : TRUE].v

DecimalChar(n) ==
    CASE n = 0 -> "0" [] n = 1 -> "1" [] n = 2 -> "2" [] n = 3 -> "3" [] n = 4 -> "4"
      [] n = 5 -> "5" [] n = 6 -> "6" [] n = 7 -> "7" [] n = 8 -> "8" [] n = 9 -> "9"

\* The field name path_i, for i below 100.
PathKey(i) ==
    <<"p", "a", "t", "h", "_">>
        \o (IF i < 10 THEN <<DecimalChar(i)>>
            ELSE <<DecimalChar(i \div 10), DecimalChar(i % 10)>>)

SlashPositions(path) == {p \in 1..Len(path) : path[p] = "/"}

\* The position of the i-th slash of path; 0 for i = 0, past the end when
\* there are fewer than i.
SlashAt(path, i) ==
    IF i = 0 THEN 0
    ELSE IF i > Cardinality(SlashPositions(path)) THEN Len(path) + 1
    ELSE CHOOSE p \in SlashPositions(path) :
             Cardinality({q \in SlashPositions(path) : q < p}) = i - 1

\* The i-th element (from 0) of path split on the slash.
Segment(path, i) == SubSeq(path, SlashAt(path, i) + 1, SlashAt(path, i + 1) - 1)

\* The lines of a message, read character by character: a "\n", or a "\r"
\* with the "\n" after it, ends the line.
RECURSIVE ScanLines(_, _)
ScanLines(text, line) ==
    IF text = <<>> THEN <<line>>
    ELSE IF Head(text) = "\n" THEN <<line>> \o ScanLines(Tail(text), <<>>)
    ELSE IF Head(text) = "\r" /\ Len(text) > 1 /\ text[2] = "\n"
         THEN <<line>> \o ScanLines(Tail(Tail(text)), <<>>)
    ELSE ScanLines(Tail(text), Append(line, Head(text)))

StatusText(status) ==
    IF status = 200 THEN <<"2", "0", "0">> ELSE <<"4", "0", "4">>

-----------------------------------------------------------------------------
(* The claims *)

\* C1: every handled request whose resolved handler carries the suppression
\* marker set true leaves exactly one suppressed-notice call in the sink and
\* no structured record.
C1_SuppressedEmitsOneNotice ==
    \A c \in DOMAIN calls :
        (Done(c) /\ RouteResolves(calls[c].request)
                 /\ RequestMarker(calls[c].request) = True)
        => (Cardinality(NoticeCalls(c)) = 1 /\ RecordCalls(c) = {})

\* C2: a handled request whose route resolution fails, or whose resolved
\* handler has no suppression marker, makes exactly one sink call; the call
\* carries the one-line JSON text of the record, and the record's status_code
\* is the status code of the response the wrapped handler returned.
C2_UnsuppressedEmitsOneRecord ==
    \A c \in DOMAIN calls :
        (Done(c) /\ (~RouteResolves(calls[c].request)
                     \/ (/\ HandlerResolved(urlconf[calls[c].request.path],
                                            LowerMethod(calls[c].request.method))
                         /\ RequestMarker(calls[c].request) = None)))
        => /\ Cardinality(RecordCalls(c)) = 1
           /\ Cardinality({i \in 1..Len(sink) : IsNoticeCall(sink[i])}) = 0
           /\ \A i \in RecordCalls(c) :
                 /\ sink[i].msg = json_dumps(calls[c].message)
                 /\ \A p \in 1..Len(sink[i].msg) : sink[i].msg[p] # "\n"
                 /\ LET head == <<"{", "\"">> \o K_status_code \o <<"\"", ":", " ">>
                                    \o StatusText(calls[c].response.status_code) \o <<",">>
                    IN SubSeq(sink[i].msg, 1, Len(head)) = head
                 /\ sink[i].kwargs.extra.response = calls[c].response
           /\ HasField(calls[c].message, K_status_code)
           /\ Field(calls[c].message, K_status_code).n = calls[c].response.status_code

C2_Witness ==
    \E c \in DOMAIN calls :
        /\ Done(c)
        /\ ~RouteResolves(calls[c].request)
        /\ calls[c].request.META = Meta2
        /\ calls[c].response.status_code = 404
        /\ Len(sink) = 1

\* C3: every structured record reaches the sink at the level the interceptor
\* was constructed with.
C3_RecordAtConfiguredLevel ==
    \A i \in 1..Len(sink) : IsRecordCall(sink[i]) => sink[i].level = inst.log_level

\* C4: construction fails with the configuration error exactly when the
\* configured level is outside {NOTSET, DEBUG, INFO, WARNING, ERROR, CRITICAL};
\* a failed construction handles no request and makes no sink call; a
\* successful one holds the configured level, DEBUG when none is set.
C4_ConstructionValidatesLevel ==
    LET level == IF settings.set THEN settings.value ELSE 10
    IN /\ inst.state = "ValueError" => level \notin {0, 10, 20, 30, 40, 50}
       /\ inst.state = "ok" => (level \in {0, 10, 20, 30, 40, 50} /\ inst.log_level = level)
       /\ inst.state # "ok" => (sink = <<>> /\ \A c \in DOMAIN calls : calls[c].pc = "idle")

C4_Witness == inst.state = "ValueError" /\ settings.set /\ settings.value = 5

\* C5: Logger.log makes one sink call per line of the message, in the order
\* of the lines, each at the level and with the args and kwargs it was given.
C5_LogSplitsLines ==
    (probe.kind = "log" /\ probe.done)
    => LET lines == ScanLines(probe.msg, <<>>)
       IN /\ Len(sink) = Len(lines)
          /\ Len(sink) = Cardinality({p \in 1..Len(probe.msg) : probe.msg[p] = "\n"}) + 1
          /\ \A i \in 1..Len(sink) :
                /\ sink[i].msg = lines[i]
                /\ sink[i].level = probe.level
                /\ sink[i].args = probe.context.args
                /\ sink[i].kwargs = probe.context.kwargs

C5_Witness ==
    /\ probe.kind = "log" /\ probe.done
    /\ probe.msg = <<"X", "\n", "Y", "\n", "Z">>
    /\ Len(sink) = 3
    /\ sink[1].msg = <<"X">> /\ sink[2].msg = <<"Y">> /\ sink[3].msg = <<"Z">>

\* C6: the record of a non-suppressed request has, for each META item whose
\* key is in the HTTP_ namespace, a field of that name with the item's value,
\* and no field named by a META key outside that namespace.
C6_HeadersForwarded ==
    \A c \in DOMAIN calls :
        Logged(c)
        => \A j \in 1..Len(calls[c].request.META) :
              LET item == calls[c].request.META[j]
              IN IF HasHttpPrefix(item.k)
                 THEN /\ HasField(calls[c].message, item.k)
                      /\ Field(calls[c].message, item.k) = item.v
                 ELSE ~HasField(calls[c].message, item.k)

C6_Witness ==
    \E c \in DOMAIN calls :
        /\ Logged(c)
        /\ calls[c].request.META = Meta1
        /\ Field(calls[c].message, <<"H", "T", "T", "P", "_", "X", "_", "F", "O", "O">>).s
               = <<"b", "a", "r">>
        /\ ~HasField(calls[c].message,
                     <<"C", "O", "N", "T", "E", "N", "T", "_", "L", "E", "N", "G", "T", "H">>)

\* C7: the record of a non-suppressed request with path P has exactly one
\* field path_i for each i in 0..k, k the number of slashes of P, holding the
\* i-th element of P split on the slash, and no other field named path_....
C7_PathFields ==
    \A c \in DOMAIN calls :
        Logged(c)
        => LET path == calls[c].request.path
               k == Cardinality(SlashPositions(path))
           IN /\ \A i \in 0..k :
                    /\ Cardinality(EntriesWithKey(calls[c].message, PathKey(i))) = 1
                    /\ Field(calls[c].message, PathKey(i)).t = "str"
                    /\ Field(calls[c].message, PathKey(i)).s = Segment(path, i)
              /\ \A j \in 1..Len(calls[c].message) :
                    HasPathPrefix(calls[c].message[j].k)
                    => calls[c].message[j].k \in {PathKey(i) : i \in 0..k}

C7_Witness ==
    \E c \in DOMAIN calls :
        /\ Logged(c)
        /\ calls[c].request.path = <<"/", "a", "/", "b", "/", "c">>
        /\ Field(calls[c].message, PathKey(0)).s = <<>>
        /\ Field(calls[c].message, PathKey(1)).s = <<"a">>
        /\ Field(calls[c].message, PathKey(2)).s = <<"b">>
        /\ Field(calls[c].message, PathKey(3)).s = <<"c">>
        /\ ~HasField(calls[c].message, PathKey(4))

\* C8: the time field of the record of a non-suppressed request is at least
\* 0, whatever the clock returned at the two readings.
C8_TimeNonNegative ==
    \A c \in DOMAIN calls :
        Logged(c) => Field(calls[c].message, K_time).n >= 0

\* C9: for a resolved view and a method, _should_log_route returns the marker
\* of the handler chosen by shape, and none when the method is absent from the
\* action map even if the view itself carries a marker.
C9_MarkerOfEffectiveHandler ==
    (probe.kind = "route" /\ probe.done /\ RouteResolves(probe.request))
    => probe.result = RequestMarker(probe.request)

\* C10: under every interleaving of concurrent invocations the instance keeps
\* the fields construction gave it, and each non-suppressed invocation emits
\* one record whose method, path, user, headers and status_code are those of
\* its own request and response.
C10_OwnRecord ==
    \A c \in DOMAIN calls :
        Logged(c)
        => LET request == calls[c].request
               message == calls[c].message
           IN /\ Field(message, K_method).s = request.method
              /\ Field(message, K_path).s = request.path
              /\ Field(message, K_user).s = request.user
              /\ Field(message, K_status_code).n = calls[c].response.status_code
              /\ \A j \in 1..Len(request.META) :
                    HasHttpPrefix(request.META[j].k)
                    => (/\ HasField(message, request.META[j].k)
                        /\ Field(message, request.META[j].k) = request.META[j].v)
              /\ \A j \in 1..Len(message) :
                    HasHttpPrefix(message[j].k)
                    => \E h \in 1..Len(request.META) : request.META[h].k = message[j].k
              /\ Cardinality(RecordCalls(c)) = 1
              /\ \A i \in RecordCalls(c) :
                    /\ sink[i].msg = json_dumps(message)
                    /\ sink[i].kwargs.extra.request = request
                    /\ sink[i].kwargs.extra.response = calls[c].response

C10_Reentrant ==
    /\ [](C10_OwnRecord)
    /\ [][inst.state = "ok" => inst' = inst]_vars

C10_Witness ==
    /\ MaxCalls >= 2
    /\ calls[1].pc = "get_response"
    /\ Logged(2)
    /\ calls[1].request.user # calls[2].request.user

====
